---- MODULE Spec2Model ----
(***************************************************************************)
(* Model of lambda_function.py: a Lambda handler that, on a CloudWatch     *)
(* alarm notification delivered through SNS, rewrites the weights of two   *)
(* weighted Route 53 records (primary and secondary).                      *)
(*                                                                         *)
(* Conventions.                                                            *)
(*   - A Python Optional is a sequence: None is <<>>, a value v is <<v>>.   *)
(*   - A Python dict is a record; a key that is absent is absent from the  *)
(*     record's DOMAIN.                                                    *)
(*   - A string whose characters the code looks at (the record name) is a  *)
(*     sequence of characters; a JSON text is a sequence of tokens.        *)
(*   - A string built by concatenation is the sequence of its fragments.   *)
(***************************************************************************)
EXTENDS Integers, Sequences, FiniteSets, TLC

VARIABLES
    zone,   \* the hosted zone held by the provider: a sorted sequence of record sets
    env,    \* os.environ: variable name -> Optional value
    inv,    \* the invocations of lambda_handler: id -> locals and position
    last    \* history: the state of the latest ALARM or OK notification
            \* processed since a provider call last failed, None if there is none

vars == <<zone, env, inv, last>>

None == <<>>
Some(v) == <<v>>

(***************************************************************************)
(* Bounds of the model.                                                    *)
(***************************************************************************)
\* weights the two records may carry before the first invocation: 0..MaxWeight
MaxWeight == 1
\* number of record sets the provider returns per page of a listing
PageSize == 2

(***************************************************************************)
(* Strings.                                                                *)
(***************************************************************************)
\* code points of the characters used in record names
CharRank == [c \in {".", "a", "b", "c"} |->
               CASE c = "." -> 46 [] c = "a" -> 97 [] c = "b" -> 98 [] c = "c" -> 99]

\* Python's s < t on strings
RECURSIVE StrLess(_, _)
StrLess(s, t) ==
    IF s = <<>> THEN t # <<>>
    ELSE IF t = <<>> THEN FALSE
    ELSE IF Head(s) = Head(t) THEN StrLess(Tail(s), Tail(t))
    ELSE CharRank[Head(s)] < CharRank[Head(t)]

\* s.endswith(".")
EndsWithDot(s) == Len(s) > 0 /\ s[Len(s)] = "."

(***************************************************************************)
(* validate_environment_variables                                          *)
(***************************************************************************)
required_vars ==
    <<"HOSTED_ZONE_ID", "RECORD_SET_NAME", "PRIMARY_IDENTIFIER",
      "SECONDARY_IDENTIFIER", "RECORD_TYPE">>

RequiredSet == {required_vars[k] : k \in 1..Len(required_vars)}

\* mutant: `value is None` in place of `not value`
EnvFalsy_UnsetOnly(e, var) == e[var] = None

\* `not value` for value = os.environ.get(var): unset or the empty string.
\* RECORD_SET_NAME is a character sequence, the other values are atomic.
EnvFalsy(e, var) ==
    \/ e[var] = None
    \/ IF var = "RECORD_SET_NAME" THEN e[var][1] = <<>> ELSE e[var][1] = ""

\* mutant: the dot is appended whether or not the name ends with one
NormalizeName_Always(name) == name \o <<".">>

\* the record name, with the dot appended when it does not end with one
NormalizeName(name) == IF EndsWithDot(name) THEN name ELSE name \o <<".">>

validate_environment_variables(e) ==
    LET missing_vars == SelectSeq(required_vars, LAMBDA var : EnvFalsy(e, var))
    IN  IF missing_vars # <<>>
        THEN [kind |-> "raise", exc |-> "ValueError",
              message |-> <<"Missing required environment variables: ">>
                          \o missing_vars]
        ELSE [kind |-> "return",
              env_vars |-> [var \in RequiredSet |->
                              IF var = "RECORD_SET_NAME"
                              THEN NormalizeName(e[var][1])
                              ELSE e[var][1]]]

(***************************************************************************)
(* json.loads on a token sequence.                                         *)
(***************************************************************************)
Tok(t, v) == [t |-> t, v |-> v]
LBrace == Tok("punct", "{")
RBrace == Tok("punct", "}")
LBracket == Tok("punct", "[")
RBracket == Tok("punct", "]")
Colon == Tok("punct", ":")
Comma == Tok("punct", ",")
Str(s) == Tok("str", s)
Num(s) == Tok("num", s)
Word(s) == Tok("word", s)

JNull == [k |-> "null"]
ParseFail == [ok |-> FALSE, val |-> JNull, next |-> 0]
ParseOk(v, n) == [ok |-> TRUE, val |-> v, next |-> n]

RECURSIVE ParseValue(_, _), ParseMembers(_, _, _, _, _), ParseElements(_, _, _, _)

\* the JSON value that starts at token i
ParseValue(toks, i) ==
    IF i > Len(toks) THEN ParseFail
    ELSE LET t == toks[i] IN
         IF t.t = "str" THEN ParseOk([k |-> "string", s |-> t.v], i + 1)
         ELSE IF t.t = "num" THEN ParseOk([k |-> "number", s |-> t.v], i + 1)
         ELSE IF t.t = "word"
              THEN IF t.v = "null" THEN ParseOk(JNull, i + 1)
                   ELSE IF t.v \in {"true", "false"}
                        THEN ParseOk([k |-> "bool", s |-> t.v], i + 1)
                        ELSE ParseFail
         ELSE IF t = LBrace THEN ParseMembers(toks, i + 1, <<>>, <<>>, TRUE)
         ELSE IF t = LBracket THEN ParseElements(toks, i + 1, <<>>, TRUE)
         ELSE ParseFail

\* the members of an object, after its "{" or after a ","
ParseMembers(toks, i, keys, vals, first) ==
    IF i > Len(toks) THEN ParseFail
    ELSE IF first /\ toks[i] = RBrace
         THEN ParseOk([k |-> "object", keys |-> keys, vals |-> vals], i + 1)
    ELSE IF toks[i].t = "str" /\ i + 1 <= Len(toks) /\ toks[i + 1] = Colon
         THEN LET r == ParseValue(toks, i + 2)
                  ks == Append(keys, toks[i].v)
                  vs == Append(vals, r.val)
              IN  IF ~r.ok \/ r.next > Len(toks) THEN ParseFail
                  ELSE IF toks[r.next] = Comma
                       THEN ParseMembers(toks, r.next + 1, ks, vs, FALSE)
                  ELSE IF toks[r.next] = RBrace
                       THEN ParseOk([k |-> "object", keys |-> ks, vals |-> vs],
                                    r.next + 1)
                  ELSE ParseFail
    ELSE ParseFail

\* the elements of an array, after its "[" or after a ","
ParseElements(toks, i, items, first) ==
    IF i > Len(toks) THEN ParseFail
    ELSE IF first /\ toks[i] = RBracket
         THEN ParseOk([k |-> "array", items |-> items], i + 1)
    ELSE LET r == ParseValue(toks, i)
             its == Append(items, r.val)
         IN  IF ~r.ok \/ r.next > Len(toks) THEN ParseFail
             ELSE IF toks[r.next] = Comma
                  THEN ParseElements(toks, r.next + 1, its, FALSE)
             ELSE IF toks[r.next] = RBracket
                  THEN ParseOk([k |-> "array", items |-> its], r.next + 1)
             ELSE ParseFail

\* json.loads(text): ok = FALSE stands for json.JSONDecodeError
JsonLoads(toks) ==
    LET r == ParseValue(toks, 1)
    IN  IF r.ok /\ r.next = Len(toks) + 1
        THEN [ok |-> TRUE, val |-> r.val]
        ELSE [ok |-> FALSE, val |-> JNull]

\* dict.get(key) on a parsed JSON object: the last member with that key, or None
DictGet(obj, key) ==
    LET hits == {j \in 1..Len(obj.keys) : obj.keys[j] = key}
    IN  IF hits = {} THEN None
        ELSE Some(obj.vals[CHOOSE j \in hits : \A h \in hits : h <= j])

\* `not v` for a parsed JSON value
JsonFalsy(v) ==
    \/ v.k = "null"
    \/ v.k = "string" /\ v.s = ""
    \/ v.k = "number" /\ v.s \in {"0", "0.0", "-0"}
    \/ v.k = "bool" /\ v.s = "false"
    \/ v.k = "array" /\ v.items = <<>>
    \/ v.k = "object" /\ v.keys = <<>>

(***************************************************************************)
(* validate_sns_message                                                    *)
(***************************************************************************)
RecognizedStates == {"ALARM", "OK", "INSUFFICIENT_DATA"}

ReturnNone == [kind |-> "return", value |-> None]

validate_sns_message(event) ==
    IF "Records" \notin DOMAIN event THEN ReturnNone
    ELSE IF event.Records = <<>> THEN ReturnNone
    ELSE LET sns_record == event.Records[1] IN
    IF "Sns" \notin DOMAIN sns_record THEN ReturnNone
    ELSE LET sns_message_str ==
                 IF "Message" \in DOMAIN sns_record.Sns
                 THEN Some(sns_record.Sns.Message) ELSE None IN
    IF sns_message_str = None \/ sns_message_str[1] = <<>> THEN ReturnNone
    ELSE LET parsed == JsonLoads(sns_message_str[1]) IN
    IF ~parsed.ok THEN ReturnNone          \* except json.JSONDecodeError
    ELSE IF parsed.val.k # "object"
         THEN [kind |-> "raise", exc |-> "AttributeError"]   \* no .get on it
    ELSE LET new_state == DictGet(parsed.val, "NewStateValue") IN
    IF new_state = None \/ JsonFalsy(new_state[1]) THEN ReturnNone
    ELSE IF new_state[1].k = "string" /\ new_state[1].s \in RecognizedStates
         THEN [kind |-> "return", value |-> Some(new_state[1].s)]
         ELSE ReturnNone

(***************************************************************************)
(* The provider (route53_client): a hosted zone is a sequence of record    *)
(* sets ordered by name, then type, then set identifier.                   *)
(***************************************************************************)
TypeRank == [t \in {"A", "TXT"} |-> IF t = "A" THEN 1 ELSE 2]

IdRank == [s \in {"aux", "blue", "primary", "secondary"} |->
             CASE s = "aux" -> 1 [] s = "blue" -> 2 [] s = "primary" -> 3
               [] s = "secondary" -> 4]

\* record_set.get("SetIdentifier")
GetSetIdentifier(record_set) ==
    IF "SetIdentifier" \in DOMAIN record_set
    THEN Some(record_set.SetIdentifier) ELSE None

\* rank of a set identifier in the listing order; a record without one is first
IdOrder(record_set) ==
    IF GetSetIdentifier(record_set) = None THEN 0
    ELSE IdRank[record_set.SetIdentifier]

\* record set r comes before name/type in the provider's listing order
BeforeNameType(r, name, type) ==
    \/ StrLess(r.Name, name)
    \/ r.Name = name /\ TypeRank[r.Type] < TypeRank[type]

\* r1 comes before r2 in the provider's listing order
RecordLess(r1, r2) ==
    \/ BeforeNameType(r1, r2.Name, r2.Type)
    \/ r1.Name = r2.Name /\ r1.Type = r2.Type /\ IdOrder(r1) < IdOrder(r2)

\* the two record sets are the same record: same name, type and set identifier
SameRecord(r1, r2) ==
    /\ r1.Name = r2.Name
    /\ r1.Type = r2.Type
    /\ GetSetIdentifier(r1) = GetSetIdentifier(r2)

\* Action UPSERT: replace the record set if it exists, create it otherwise
Upsert(z, rrs) ==
    IF \E j \in 1..Len(z) : SameRecord(z[j], rrs)
    THEN [j \in 1..Len(z) |-> IF SameRecord(z[j], rrs) THEN rrs ELSE z[j]]
    ELSE LET k == Cardinality({j \in 1..Len(z) : RecordLess(z[j], rrs)})
         IN  SubSeq(z, 1, k) \o <<rrs>> \o SubSeq(z, k + 1, Len(z))

\* change_resource_record_sets: the changes of the batch, applied in order
RECURSIVE ChangeResourceRecordSets(_, _)
ChangeResourceRecordSets(z, changes) ==
    IF changes = <<>> THEN z
    ELSE ChangeResourceRecordSets(
             IF Head(changes).Action = "UPSERT"
             THEN Upsert(z, Head(changes).ResourceRecordSet) ELSE z,
             Tail(changes))

\* the listing cut into pages of PageSize record sets; an empty listing is one
\* empty page
RECURSIVE Paginate(_)
Paginate(listing) ==
    IF Len(listing) <= PageSize
    THEN <<[ResourceRecordSets |-> listing]>>
    ELSE <<[ResourceRecordSets |-> SubSeq(listing, 1, PageSize)]>>
         \o Paginate(SubSeq(listing, PageSize + 1, Len(listing)))

\* paginator.paginate(StartRecordName, StartRecordType): the pages of the
\* listing that starts at the first record set not before that name and type
ListResourceRecordSets(z, StartRecordName, StartRecordType) ==
    Paginate(SelectSeq(z, LAMBDA r :
                 ~BeforeNameType(r, StartRecordName, StartRecordType)))

(***************************************************************************)
(* RecordInfo and get_record_info                                          *)
(***************************************************************************)
DefaultTTL == 300

RecordInfo(is_alias, alias_dns_name, alias_hosted_zone_id, resource_records, ttl) ==
    [is_alias |-> is_alias,
     alias_dns_name |-> alias_dns_name,
     alias_hosted_zone_id |-> alias_hosted_zone_id,
     resource_records |-> resource_records,
     ttl |-> ttl]

\* the descriptor built from a matching alias record set
AliasInfo(record_set) ==
    RecordInfo(TRUE, Some(record_set.AliasTarget.DNSName),
               Some(record_set.AliasTarget.HostedZoneId), None, None)

\* the descriptor built from a matching standard record set
StandardInfo(record_set) ==
    RecordInfo(FALSE, None, None,
               Some([j \in 1..Len(record_set.ResourceRecords) |->
                       record_set.ResourceRecords[j].Value]),
               Some(IF "TTL" \in DOMAIN record_set
                    THEN record_set.TTL ELSE DefaultTTL))

\* the condition of the if at the head of the inner loop's body
Matches(record_set, record_set_name, identifier, record_type) ==
    /\ record_set.Name = record_set_name
    /\ GetSetIdentifier(record_set) = Some(identifier)
    /\ record_set.Type = record_type

\* the inner loop over one page, from its j-th record set: the descriptor
\* returned from inside it, or None when it ends or breaks
RECURSIVE SearchPage(_, _, _, _, _)
SearchPage(sets, j, record_set_name, identifier, record_type) ==
    IF j > Len(sets) THEN None
    ELSE IF StrLess(record_set_name, sets[j].Name) THEN None      \* break
    ELSE IF /\ Matches(sets[j], record_set_name, identifier, record_type)
            /\ "AliasTarget" \in DOMAIN sets[j]
         THEN Some(AliasInfo(sets[j]))
    ELSE IF /\ Matches(sets[j], record_set_name, identifier, record_type)
            /\ "ResourceRecords" \in DOMAIN sets[j]
         THEN Some(StandardInfo(sets[j]))
    ELSE SearchPage(sets, j + 1, record_set_name, identifier, record_type)

\* mutant: only the first page of the listing is searched
SearchPages_FirstPageOnly(pages, p, record_set_name, identifier, record_type) ==
    IF p > Len(pages) THEN None
    ELSE SearchPage(pages[p].ResourceRecordSets, 1,
                    record_set_name, identifier, record_type)

\* the outer loop over the pages, from the p-th
RECURSIVE SearchPages(_, _, _, _, _)
SearchPages(pages, p, record_set_name, identifier, record_type) ==
    IF p > Len(pages) THEN None
    ELSE LET r == SearchPage(pages[p].ResourceRecordSets, 1,
                             record_set_name, identifier, record_type)
         IN  IF r # None THEN r
             ELSE SearchPages(pages, p + 1, record_set_name, identifier,
                              record_type)

\* get_record_info when the provider answers; z is the zone hosted_zone_id names
get_record_info(z, record_set_name, identifier, record_type) ==
    SearchPages(ListResourceRecordSets(z, record_set_name, record_type), 1,
                record_set_name, identifier, record_type)

(***************************************************************************)
(* set_dns_record_weight                                                   *)
(***************************************************************************)
\* record_info.ttl or 300
TtlOrDefault(ttl) == IF ttl = None \/ ttl[1] = 0 THEN DefaultTTL ELSE ttl[1]

\* the AliasTarget the mutation submits
AliasTargetOf(record_info) ==
    [DNSName |-> record_info.alias_dns_name[1],
     HostedZoneId |-> record_info.alias_hosted_zone_id[1],
     EvaluateTargetHealth |-> FALSE]

\* [{"Value": value} for value in (record_info.resource_records or [])]
ResourceRecordsOf(record_info) ==
    LET values == IF record_info.resource_records = None THEN <<>>
                  ELSE record_info.resource_records[1]
    IN  [j \in 1..Len(values) |-> [Value |-> values[j]]]

\* mutant: TTL is put in the base record set, so an alias carries it too
resource_record_set_TtlInBase(record_set_name, record_type, identifier, weight, record_info) ==
    IF record_info.is_alias
    THEN [Name |-> record_set_name, Type |-> record_type, Weight |-> weight,
          SetIdentifier |-> identifier,
          TTL |-> TtlOrDefault(record_info.ttl),
          AliasTarget |-> AliasTargetOf(record_info)]
    ELSE [Name |-> record_set_name, Type |-> record_type, Weight |-> weight,
          SetIdentifier |-> identifier,
          TTL |-> TtlOrDefault(record_info.ttl),
          ResourceRecords |-> ResourceRecordsOf(record_info)]

\* the record set the mutation submits
resource_record_set(record_set_name, record_type, identifier, weight, record_info) ==
    IF record_info.is_alias
    THEN [Name |-> record_set_name, Type |-> record_type, Weight |-> weight,
          SetIdentifier |-> identifier,
          AliasTarget |-> AliasTargetOf(record_info)]
    ELSE [Name |-> record_set_name, Type |-> record_type, Weight |-> weight,
          SetIdentifier |-> identifier,
          TTL |-> TtlOrDefault(record_info.ttl),
          ResourceRecords |-> ResourceRecordsOf(record_info)]

\* mutant: the record set is created, not upserted
change_batch_Create(record_set_name, record_type, identifier, weight, record_info) ==
    [Changes |-> <<[Action |-> "CREATE",
                    ResourceRecordSet |->
                        resource_record_set(record_set_name, record_type,
                                            identifier, weight, record_info)]>>]

change_batch(record_set_name, record_type, identifier, weight, record_info) ==
    [Changes |-> <<[Action |-> "UPSERT",
                    ResourceRecordSet |->
                        resource_record_set(record_set_name, record_type,
                                            identifier, weight, record_info)]>>]

(***************************************************************************)
(* lambda_handler: the values it computes.                                 *)
(***************************************************************************)
Response(statusCode, body) ==
    [kind |-> "return", statusCode |-> statusCode, body |-> body]

\* mutant: the two branches' primary weights exchanged
PrimaryWeight_Exchanged(new_state) == IF new_state = "ALARM" THEN 1 ELSE 0

\* mutant: the primary is given weight 1 in every branch
PrimaryWeight_AlwaysOne(new_state) == 1

\* the weight the handler passes for the primary identifier
PrimaryWeight(new_state) == IF new_state = "ALARM" THEN 0 ELSE 1

\* mutant: the secondary is given weight 1 in every branch
SecondaryWeight_AlwaysOne(new_state) == 1

\* the weight the handler passes for the secondary identifier
SecondaryWeight(new_state) == IF new_state = "ALARM" THEN 1 ELSE 0

\* mutant: the second test looks at the primary descriptor again
LookupErrorMsg_WrongTest(pri_record_info, sec_record_info, primary_identifier, secondary_identifier) ==
    <<"Failed to retrieve record information for ">>
    \o (IF pri_record_info = None
        THEN <<"primary identifier '", primary_identifier, "'">> ELSE <<>>)
    \o (IF pri_record_info = None
        THEN <<" and ", "secondary identifier '", secondary_identifier, "'">>
        ELSE <<>>)

\* error_msg, built when a descriptor is missing
LookupErrorMsg(pri_record_info, sec_record_info, primary_identifier, secondary_identifier) ==
    <<"Failed to retrieve record information for ">>
    \o (IF pri_record_info = None
        THEN <<"primary identifier '", primary_identifier, "'">> ELSE <<>>)
    \o (IF sec_record_info = None
        THEN (IF pri_record_info = None THEN <<" and ">> ELSE <<>>)
             \o <<"secondary identifier '", secondary_identifier, "'">>
        ELSE <<>>)

ConfigErrorResponse(message) ==
    Response(500, [error |-> <<"Configuration error">>, message |-> message])

InvalidEventResponse == Response(400, [error |-> <<"Invalid event structure">>])

LookupErrorResponse(error_msg) == Response(500, [error |-> error_msg])

NoActionResponse(new_state) ==
    Response(200, [message |-> <<"No action taken for state: ", new_state>>])

SuccessResponse(new_state) ==
    Response(200, [message |->
                     <<"DNS weights updated successfully for state: ", new_state>>])

UpdateFailedResponse == Response(500, [error |-> <<"Failed to update DNS weights">>])

\* an exception that leaves lambda_handler
Raised(exc) == [kind |-> "raise", exc |-> exc]

(***************************************************************************)
(* Inputs: environments, events, and the zones the provider may hold.      *)
(***************************************************************************)
TargetName == <<"b", ".">>

GoodEnv(name, secondary) ==
    [var \in RequiredSet |->
       CASE var = "HOSTED_ZONE_ID" -> Some("Z1")
         [] var = "RECORD_SET_NAME" -> Some(name)
         [] var = "PRIMARY_IDENTIFIER" -> Some("primary")
         [] var = "SECONDARY_IDENTIFIER" -> Some(secondary)
         [] var = "RECORD_TYPE" -> Some("A")]

EmptyValue(var) == IF var = "RECORD_SET_NAME" THEN Some(<<>>) ELSE Some("")

Envs ==
    {GoodEnv(TargetName, "secondary"), GoodEnv(<<"b">>, "secondary"),
     GoodEnv(TargetName, "primary")}
    \cup {[GoodEnv(TargetName, "secondary") EXCEPT ![var] = None] :
              var \in RequiredSet}
    \cup {[GoodEnv(TargetName, "secondary") EXCEPT ![var] = EmptyValue(var)] :
              var \in RequiredSet}
    \cup {[var \in RequiredSet |-> None]}

StateMessage(state) == <<LBrace, Str("NewStateValue"), Colon, state, RBrace>>

AlarmMessage(state) ==
    <<LBrace, Str("AlarmName"), Colon, Str("test-alarm"), Comma,
      Str("NewStateValue"), Colon, Str(state), Comma,
      Str("NewStateReason"), Colon, Str("Threshold Crossed"), RBrace>>

Messages ==
    {AlarmMessage(s) : s \in RecognizedStates \cup {"PENDING"}}
    \cup {StateMessage(v) :
            v \in {Str("INSUFFICIENT_DATA"), Str(""), Str("alarm"), Word("null"),
                   Num("0"), Num("1"), LBracket}}
    \cup {<<>>,
          <<Word("not-json")>>,
          <<LBrace, Str("NewStateValue"), Colon, Str("ALARM")>>,
          <<LBrace, Str("AlarmName"), Colon, Str("test"), RBrace>>,
          <<LBrace, RBrace>>,
          <<LBracket, Str("ALARM"), RBracket>>,
          <<LBracket, RBracket>>,
          <<Str("ALARM")>>,
          <<Num("5")>>,
          <<Word("null")>>}

SnsRecord(message) == [Sns |-> [Message |-> message]]

Events ==
    {[Records |-> <<SnsRecord(m)>>] : m \in Messages}
    \cup {[invalid |-> "structure"],
          [Records |-> <<>>],
          [Records |-> <<[EventSource |-> "aws:sns"]>>],
          [Records |-> <<[Sns |-> [Subject |-> "ALARM"]]>>],
          [Records |-> <<SnsRecord(AlarmMessage("OK")),
                         SnsRecord(AlarmMessage("ALARM"))>>],
          [Records |-> <<[EventSource |-> "aws:sns"],
                         SnsRecord(AlarmMessage("ALARM"))>>]}

TTLs == {0, 60}

TargetOf(identifier) ==
    CASE identifier = "primary" -> "primary-lb.example.com."
      [] identifier = "secondary" -> "secondary-lb.example.com."
      [] OTHER -> "aux-lb.example.com."

ValuesOf(identifier) ==
    CASE identifier = "primary" -> <<[Value |-> "192.0.2.1"]>>
      [] identifier = "secondary" ->
             <<[Value |-> "198.51.100.1"], [Value |-> "198.51.100.2"]>>
      [] OTHER -> <<[Value |-> "203.0.113.1"]>>

AliasRecord(identifier, weight, evaluate) ==
    [Name |-> TargetName, Type |-> "A", SetIdentifier |-> identifier,
     Weight |-> weight,
     AliasTarget |-> [DNSName |-> TargetOf(identifier),
                      HostedZoneId |-> "ZELB",
                      EvaluateTargetHealth |-> evaluate]]

StandardRecord(identifier, weight, ttl) ==
    [Name |-> TargetName, Type |-> "A", SetIdentifier |-> identifier,
     Weight |-> weight, TTL |-> ttl, ResourceRecords |-> ValuesOf(identifier)]

PlainRecord(name, type) ==
    [Name |-> name, Type |-> type, TTL |-> 60,
     ResourceRecords |-> <<[Value |-> "203.0.113.9"]>>]

\* the weighted record of an identifier: absent, an alias or a standard record
WeightedChoices(identifier) ==
    {<<>>}
    \cup {<<AliasRecord(identifier, w, e)>> : w \in 0..MaxWeight, e \in BOOLEAN}
    \cup {<<StandardRecord(identifier, w, t)>> : w \in 0..MaxWeight, t \in TTLs}

\* the other record sets of the zone
OtherChoices ==
    {<<>>,
     <<PlainRecord(<<"a", ".">>, "A"), StandardRecord("aux", 1, 60)>>,
     <<AliasRecord("aux", 1, TRUE), StandardRecord("blue", 0, 60),
       PlainRecord(<<"c", ".">>, "A")>>,
     <<PlainRecord(<<"a", ".">>, "A"), StandardRecord("aux", 1, 60),
       AliasRecord("blue", 0, FALSE), PlainRecord(TargetName, "TXT"),
       PlainRecord(<<"c", ".">>, "A")>>}

\* the zone that holds the given record sets
RECURSIVE ZoneOf(_)
ZoneOf(record_sets) ==
    IF record_sets = <<>> THEN <<>>
    ELSE Upsert(ZoneOf(Tail(record_sets)), Head(record_sets))

InitialZones ==
    {ZoneOf(o \o p \o s) :
        o \in OtherChoices, p \in WeightedChoices("primary"),
        s \in WeightedChoices("secondary")}

(***************************************************************************)
(* lambda_handler: one invocation, a step per provider call.               *)
(***************************************************************************)
\* the invocations the runtime may have in flight
Invs == {1, 2}

Idle ==
    [pc |-> "idle", event |-> None, env_vars |-> None, new_state |-> None,
     pri_record_info |-> None, sec_record_info |-> None,
     calls |-> <<>>, pre |-> <<>>, result |-> [kind |-> "none"]]

\* an invocation slot the runtime does not use
Off == [Idle EXCEPT !.pc = "off"]

\* the invocation has left lambda_handler with this result
Done(l, result) == [l EXCEPT !.pc = "done", !.result = result]

\* lines 269-295: configuration, then the event
Invoke(i) ==
    /\ inv[i].pc = "idle"
    /\ \E event \in Events :
         LET l == [inv[i] EXCEPT !.event = Some(event), !.pre = zone]
             cfg == validate_environment_variables(env)
             st == validate_sns_message(event)
         IN  inv' = [inv EXCEPT ![i] =
                 IF cfg.kind = "raise" THEN Done(l, ConfigErrorResponse(cfg.message))
                 ELSE IF st.kind = "raise" THEN Done(l, Raised(st.exc))
                 ELSE IF st.value = None THEN Done(l, InvalidEventResponse)
                 ELSE [l EXCEPT !.pc = "lookup_pri",
                                !.env_vars = Some(cfg.env_vars),
                                !.new_state = st.value]]
    /\ UNCHANGED <<zone, env, last>>

ListCall(l, identifier, ok) ==
    [op |-> "list_resource_record_sets",
     HostedZoneId |-> l.env_vars[1]["HOSTED_ZONE_ID"],
     StartRecordName |-> l.env_vars[1]["RECORD_SET_NAME"],
     StartRecordType |-> l.env_vars[1]["RECORD_TYPE"],
     identifier |-> identifier, ok |-> ok]

\* get_record_info as called by the handler; ok = FALSE: the provider raises
Lookup(l, identifier, ok) ==
    IF ok
    THEN get_record_info(zone, l.env_vars[1]["RECORD_SET_NAME"], identifier,
                         l.env_vars[1]["RECORD_TYPE"])
    ELSE None

\* lines 298-300
LookupPrimary(i) ==
    /\ inv[i].pc = "lookup_pri"
    /\ \E ok \in BOOLEAN :
         LET l == inv[i]
             id == l.env_vars[1]["PRIMARY_IDENTIFIER"]
         IN  inv' = [inv EXCEPT ![i] =
                 [l EXCEPT !.pc = "lookup_sec",
                           !.pri_record_info = Lookup(l, id, ok),
                           !.calls = Append(@, ListCall(l, id, ok))]]
    /\ UNCHANGED <<zone, env, last>>

\* mutant: the branch on new_state has no else, every state reaches the mutations
AfterLookups_NoElse(l) ==
    IF l.pri_record_info = None \/ l.sec_record_info = None
    THEN Done(l, LookupErrorResponse(
                     LookupErrorMsg(l.pri_record_info, l.sec_record_info,
                                    l.env_vars[1]["PRIMARY_IDENTIFIER"],
                                    l.env_vars[1]["SECONDARY_IDENTIFIER"])))
    ELSE [l EXCEPT !.pc = "set_pri"]

\* what follows the two lookups up to the first mutation (lines 305-358)
AfterLookups(l) ==
    IF l.pri_record_info = None \/ l.sec_record_info = None
    THEN Done(l, LookupErrorResponse(
                     LookupErrorMsg(l.pri_record_info, l.sec_record_info,
                                    l.env_vars[1]["PRIMARY_IDENTIFIER"],
                                    l.env_vars[1]["SECONDARY_IDENTIFIER"])))
    ELSE IF l.new_state[1] \in {"ALARM", "OK"}
         THEN [l EXCEPT !.pc = "set_pri"]
         ELSE Done(l, NoActionResponse(l.new_state[1]))

\* lines 301-315 and the branch on new_state
LookupSecondary(i) ==
    /\ inv[i].pc = "lookup_sec"
    /\ \E ok \in BOOLEAN :
         LET l == inv[i]
             id == l.env_vars[1]["SECONDARY_IDENTIFIER"]
         IN  inv' = [inv EXCEPT ![i] =
                 AfterLookups([l EXCEPT !.sec_record_info = Lookup(l, id, ok),
                                        !.calls = Append(@, ListCall(l, id, ok))])]
    /\ UNCHANGED <<zone, env, last>>

\* the batch set_dns_record_weight submits for an identifier
BatchFor(l, identifier, weight, record_info) ==
    change_batch(l.env_vars[1]["RECORD_SET_NAME"], l.env_vars[1]["RECORD_TYPE"],
                 identifier, weight, record_info)

ChangeCall(l, batch, ok) ==
    [op |-> "change_resource_record_sets",
     HostedZoneId |-> l.env_vars[1]["HOSTED_ZONE_ID"],
     ChangeBatch |-> batch, ok |-> ok]

\* mutant: `and` does not short-circuit, the second call follows a failed first
SetPrimary_NoShortCircuit(i) ==
    /\ inv[i].pc = "set_pri"
    /\ \E ok \in BOOLEAN :
         LET l == inv[i]
             batch == BatchFor(l, l.env_vars[1]["PRIMARY_IDENTIFIER"],
                               PrimaryWeight(l.new_state[1]),
                               l.pri_record_info[1])
             m == [l EXCEPT !.calls = Append(@, ChangeCall(l, batch, ok))]
         IN  /\ zone' = IF ok THEN ChangeResourceRecordSets(zone, batch.Changes)
                        ELSE zone
             /\ inv' = [inv EXCEPT ![i] = [m EXCEPT !.pc = "set_sec"]]
    /\ UNCHANGED <<env, last>>

\* the first set_dns_record_weight of the branch (lines 321-327, 338-344);
\* when it returns False the `and` skips the second
SetPrimary(i) ==
    /\ inv[i].pc = "set_pri"
    /\ \E ok \in BOOLEAN :
         LET l == inv[i]
             batch == BatchFor(l, l.env_vars[1]["PRIMARY_IDENTIFIER"],
                               PrimaryWeight(l.new_state[1]),
                               l.pri_record_info[1])
             m == [l EXCEPT !.calls = Append(@, ChangeCall(l, batch, ok))]
         IN  /\ zone' = IF ok THEN ChangeResourceRecordSets(zone, batch.Changes)
                        ELSE zone
             /\ inv' = [inv EXCEPT ![i] =
                          IF ok THEN [m EXCEPT !.pc = "set_sec"]
                          ELSE Done(m, UpdateFailedResponse)]
    /\ UNCHANGED <<env, last>>

\* mutant: the second set_dns_record_weight is given the primary's descriptor
SetSecondary_PrimaryInfo(i) ==
    /\ inv[i].pc = "set_sec"
    /\ \E ok \in BOOLEAN :
         LET l == inv[i]
             batch == BatchFor(l, l.env_vars[1]["SECONDARY_IDENTIFIER"],
                               SecondaryWeight(l.new_state[1]),
                               l.pri_record_info[1])
             m == [l EXCEPT !.calls = Append(@, ChangeCall(l, batch, ok))]
         IN  /\ zone' = IF ok THEN ChangeResourceRecordSets(zone, batch.Changes)
                        ELSE zone
             /\ inv' = [inv EXCEPT ![i] =
                          IF ok THEN Done(m, SuccessResponse(l.new_state[1]))
                          ELSE Done(m, UpdateFailedResponse)]
    /\ UNCHANGED <<env, last>>

\* mutant: the result of the second set_dns_record_weight is not looked at
SetSecondary_IgnoresResult(i) ==
    /\ inv[i].pc = "set_sec"
    /\ \E ok \in BOOLEAN :
         LET l == inv[i]
             batch == BatchFor(l, l.env_vars[1]["SECONDARY_IDENTIFIER"],
                               SecondaryWeight(l.new_state[1]),
                               l.sec_record_info[1])
             m == [l EXCEPT !.calls = Append(@, ChangeCall(l, batch, ok))]
         IN  /\ zone' = IF ok THEN ChangeResourceRecordSets(zone, batch.Changes)
                        ELSE zone
             /\ inv' = [inv EXCEPT ![i] = Done(m, SuccessResponse(l.new_state[1]))]
    /\ UNCHANGED <<env, last>>

\* the second set_dns_record_weight (lines 328-335, 345-352) and the return
SetSecondary(i) ==
    /\ inv[i].pc = "set_sec"
    /\ \E ok \in BOOLEAN :
         LET l == inv[i]
             batch == BatchFor(l, l.env_vars[1]["SECONDARY_IDENTIFIER"],
                               SecondaryWeight(l.new_state[1]),
                               l.sec_record_info[1])
             m == [l EXCEPT !.calls = Append(@, ChangeCall(l, batch, ok))]
         IN  /\ zone' = IF ok THEN ChangeResourceRecordSets(zone, batch.Changes)
                        ELSE zone
             /\ inv' = [inv EXCEPT ![i] =
                          IF ok THEN Done(m, SuccessResponse(l.new_state[1]))
                          ELSE Done(m, UpdateFailedResponse)]
    /\ UNCHANGED <<env, last>>

\* the history once this invocation is over
LastAfter(l) ==
    IF \E k \in 1..Len(l.calls) : ~l.calls[k].ok THEN None
    ELSE IF l.new_state \in {Some("ALARM"), Some("OK")} THEN l.new_state
    ELSE last

\* the handler has returned; the runtime is free to invoke it again
Complete(i) ==
    /\ inv[i].pc = "done"
    /\ inv' = [inv EXCEPT ![i] = Idle]
    /\ last' = LastAfter(inv[i])
    /\ UNCHANGED <<zone, env>>

Init ==
    /\ zone \in InitialZones
    /\ env \in Envs
    /\ inv = [i \in Invs |-> IF i = 1 THEN Idle ELSE Off]
    /\ last = None

Next ==
    \/ \E i \in Invs : Invoke(i)
    \/ \E i \in Invs : LookupPrimary(i)
    \/ \E i \in Invs : LookupSecondary(i)
    \/ \E i \in Invs : SetPrimary(i)
    \/ \E i \in Invs : SetSecondary(i)
    \/ \E i \in Invs : Complete(i)

Spec == Init /\ [][Next]_vars

\* zones that hold both weighted records, the primary an alias and the
\* secondary a standard record
ConcZones ==
    {ZoneOf(<<AliasRecord("primary", p, FALSE),
              StandardRecord("secondary", s, 60)>>) :
        p \in 0..MaxWeight, s \in 0..MaxWeight}

\* the runtime runs two invocations of the handler at the same time
InitConc ==
    /\ zone \in ConcZones
    /\ env = GoodEnv(TargetName, "secondary")
    /\ inv = [i \in Invs |-> Idle]
    /\ last = None

SpecConc == InitConc /\ [][Next]_vars

(***************************************************************************)
(* Vocabulary of the properties.                                           *)
(***************************************************************************)
\* every required setting is set and not empty
ValidConfig ==
    \A var \in RequiredSet : env[var] # None /\ env[var] # EmptyValue(var)

PrimaryId == env["PRIMARY_IDENTIFIER"][1]
SecondaryId == env["SECONDARY_IDENTIFIER"][1]

\* the events that notify of a given state
EventsFor(state) ==
    {e \in Events :
        /\ "Records" \in DOMAIN e
        /\ e.Records # <<>>
        /\ e.Records[1] \in {SnsRecord(AlarmMessage(state)),
                             SnsRecord(StateMessage(Str(state)))}}

\* the weighted record of the configured name and type with this identifier
RecordOf(z, identifier) ==
    LET hits == {j \in 1..Len(z) :
                    /\ z[j].Name = TargetName
                    /\ z[j].Type = "A"
                    /\ GetSetIdentifier(z[j]) = Some(identifier)}
    IN  IF hits = {} THEN None ELSE Some(z[CHOOSE j \in hits : TRUE])

WeightOf(z, identifier) ==
    IF RecordOf(z, identifier) = None THEN None
    ELSE Some(RecordOf(z, identifier)[1].Weight)

\* the provider calls an invocation has made so far, by operation
Lookups(l) == SelectSeq(l.calls, LAMBDA c : c.op = "list_resource_record_sets")
Mutations(l) == SelectSeq(l.calls, LAMBDA c : c.op = "change_resource_record_sets")

\* the record set of the k-th mutation call
Submitted(l, k) == Mutations(l)[k].ChangeBatch.Changes[1].ResourceRecordSet

\* the mutation calls that succeeded
Applied(l) == {k \in 1..Len(Mutations(l)) : Mutations(l)[k].ok}

BothFound(l) == l.pri_record_info # None /\ l.sec_record_info # None

(***************************************************************************)
(* C1: an ALARM notification, with valid configuration, both lookups and   *)
(* both mutations succeeding, submits weight 0 for the primary identifier  *)
(* and weight 1 for the secondary identifier, and when the handler returns *)
(* the primary record has weight 0 and the secondary record weight 1,      *)
(* whatever they were before. The final weights are those of two records:  *)
(* they are read where the two identifiers differ.                         *)
(***************************************************************************)
C1_AlarmRoutesToSecondary ==
    \A i \in Invs :
        LET l == inv[i] IN
        (/\ l.pc = "done"
         /\ ValidConfig
         /\ l.event[1] \in EventsFor("ALARM")
         /\ BothFound(l)
         /\ Applied(l) = {1, 2})
        => /\ Submitted(l, 1).SetIdentifier = PrimaryId
           /\ Submitted(l, 1).Weight = 0
           /\ Submitted(l, 2).SetIdentifier = SecondaryId
           /\ Submitted(l, 2).Weight = 1
           /\ PrimaryId # SecondaryId
              => /\ WeightOf(zone, PrimaryId) = Some(0)
                 /\ WeightOf(zone, SecondaryId) = Some(1)

\* an ALARM invocation has returned after moving the weights from 1/0 to 0/1
C1_Witness ==
    \E i \in Invs :
        /\ inv[i].pc = "done"
        /\ inv[i].event[1] \in EventsFor("ALARM")
        /\ Applied(inv[i]) = {1, 2}
        /\ PrimaryId # SecondaryId
        /\ WeightOf(inv[i].pre, PrimaryId) = Some(1)
        /\ WeightOf(inv[i].pre, SecondaryId) = Some(0)
        /\ WeightOf(zone, PrimaryId) = Some(0)
        /\ WeightOf(zone, SecondaryId) = Some(1)

(***************************************************************************)
(* C2: an OK notification, with valid configuration, both lookups and both *)
(* mutations succeeding, submits weight 1 for the primary identifier and   *)
(* weight 0 for the secondary identifier, and when the handler returns the *)
(* primary record has weight 1 and the secondary record weight 0, whatever *)
(* they were before (two records: the identifiers differ).                 *)
(***************************************************************************)
C2_OkRoutesToPrimary ==
    \A i \in Invs :
        LET l == inv[i] IN
        (/\ l.pc = "done"
         /\ ValidConfig
         /\ l.event[1] \in EventsFor("OK")
         /\ BothFound(l)
         /\ Applied(l) = {1, 2})
        => /\ Submitted(l, 1).SetIdentifier = PrimaryId
           /\ Submitted(l, 1).Weight = 1
           /\ Submitted(l, 2).SetIdentifier = SecondaryId
           /\ Submitted(l, 2).Weight = 0
           /\ PrimaryId # SecondaryId
              => /\ WeightOf(zone, PrimaryId) = Some(1)
                 /\ WeightOf(zone, SecondaryId) = Some(0)

\* an OK invocation has returned after moving the weights from 0/1 to 1/0
C2_Witness ==
    \E i \in Invs :
        /\ inv[i].pc = "done"
        /\ inv[i].event[1] \in EventsFor("OK")
        /\ Applied(inv[i]) = {1, 2}
        /\ PrimaryId # SecondaryId
        /\ WeightOf(inv[i].pre, PrimaryId) = Some(0)
        /\ WeightOf(inv[i].pre, SecondaryId) = Some(1)
        /\ WeightOf(zone, PrimaryId) = Some(1)
        /\ WeightOf(zone, SecondaryId) = Some(0)

(***************************************************************************)
(* C3: when the handler returns, either both records have been rewritten   *)
(* by this invocation or neither has: never exactly one of the two.        *)
(***************************************************************************)
C3_NoPartialSuccess ==
    \A i \in Invs :
        inv[i].pc = "done" => Cardinality(Applied(inv[i])) \in {0, 2}

(***************************************************************************)
(* C4: an INSUFFICIENT_DATA notification never leads to a mutation call    *)
(* and leaves the zone as it was; with valid configuration and both        *)
(* lookups succeeding the handler returns 200 'No action taken for state:  *)
(* INSUFFICIENT_DATA'.                                                     *)
(***************************************************************************)
C4_InsufficientDataNoMutation ==
    \A i \in Invs :
        LET l == inv[i] IN
        (l.pc \notin {"idle", "off"} /\ l.event[1] \in EventsFor("INSUFFICIENT_DATA"))
        => /\ Mutations(l) = <<>>
           /\ zone = l.pre
           /\ (l.pc = "done" /\ ValidConfig /\ BothFound(l))
              => l.result =
                   [kind |-> "return", statusCode |-> 200,
                    body |-> [message |-> <<"No action taken for state: ",
                                            "INSUFFICIENT_DATA">>]]

\* an INSUFFICIENT_DATA invocation has returned 200 after finding both records
C4_Witness ==
    \E i \in Invs :
        /\ inv[i].pc = "done"
        /\ inv[i].event[1] \in EventsFor("INSUFFICIENT_DATA")
        /\ BothFound(inv[i])
        /\ Len(Lookups(inv[i])) = 2
        /\ inv[i].result.statusCode = 200
        /\ WeightOf(zone, PrimaryId) = Some(0)

(***************************************************************************)
(* C5: with valid configuration, every event that is malformed or names no *)
(* recognized state is answered 400 'Invalid event structure', without an  *)
(* exception and without any provider call.                                *)
(***************************************************************************)
C5_MalformedRejected ==
    \A i \in Invs :
        LET l == inv[i] IN
        (/\ l.pc = "done"
         /\ ValidConfig
         /\ l.event[1] \notin UNION {EventsFor(st) : st \in RecognizedStates})
        => /\ l.result = [kind |-> "return", statusCode |-> 400,
                          body |-> [error |-> <<"Invalid event structure">>]]
           /\ l.calls = <<>>

(***************************************************************************)
(* C6: when one of the five required settings is unset or empty, the       *)
(* handler returns 500 'Configuration error' for every event, without      *)
(* looking at the event and without any provider call.                     *)
(***************************************************************************)
C6_ConfigErrorFailsFast ==
    \A i \in Invs :
        LET l == inv[i] IN
        (l.pc \notin {"idle", "off"} /\ ~ValidConfig)
        => /\ l.pc = "done"
           /\ l.result.kind = "return"
           /\ l.result.statusCode = 500
           /\ l.result.body.error = <<"Configuration error">>
           /\ l.calls = <<>>
           /\ zone = l.pre

\* an event that would otherwise raise is answered 500 under an empty setting
C6_Witness ==
    \E i \in Invs :
        /\ inv[i].pc = "done"
        /\ env["RECORD_TYPE"] = Some("")
        /\ inv[i].event[1] = [Records |-> <<SnsRecord(<<Word("null")>>)>>]
        /\ inv[i].result.statusCode = 500

\* the message names this role's identifier
Names(msg, role, identifier) ==
    \E k \in 1..(Len(msg) - 2) :
        /\ msg[k] = role
        /\ msg[k + 1] = identifier
        /\ msg[k + 2] = "'"

(***************************************************************************)
(* C7: with valid configuration and a recognized state, when the lookup of *)
(* the primary or of the secondary record yields no descriptor the handler *)
(* returns 500 with a message that starts 'Failed to retrieve record       *)
(* information' and names exactly the identifiers whose lookup failed, and *)
(* no mutation call is made.                                               *)
(***************************************************************************)
C7_LookupFailureReported ==
    \A i \in Invs :
        LET l == inv[i] IN
        (/\ l.pc = "done"
         /\ ValidConfig
         /\ l.event[1] \in UNION {EventsFor(st) : st \in RecognizedStates}
         /\ ~BothFound(l))
        => /\ l.result.kind = "return"
           /\ l.result.statusCode = 500
           /\ DOMAIN l.result.body = {"error"}
           /\ l.result.body.error[1] = "Failed to retrieve record information for "
           /\ Names(l.result.body.error, "primary identifier '", PrimaryId)
              <=> l.pri_record_info = None
           /\ Names(l.result.body.error, "secondary identifier '", SecondaryId)
              <=> l.sec_record_info = None
           /\ Mutations(l) = <<>>
           /\ zone = l.pre

\* the primary record is there, the secondary is not: 500 naming the secondary
C7_Witness ==
    \E i \in Invs :
        /\ inv[i].pc = "done"
        /\ inv[i].event[1] \in EventsFor("ALARM")
        /\ Len(Lookups(inv[i])) = 2
        /\ Lookups(inv[i])[2].ok
        /\ inv[i].pri_record_info # None
        /\ inv[i].sec_record_info = None
        /\ RecordOf(zone, SecondaryId) = None
        /\ inv[i].result.statusCode = 500

\* the result is the success response
ReportsSuccess(result) ==
    /\ result.kind = "return"
    /\ result.statusCode = 200
    /\ "message" \in DOMAIN result.body
    /\ result.body.message[1] = "DNS weights updated successfully for state: "

(***************************************************************************)
(* C8: the handler returns 200 'DNS weights updated successfully' exactly  *)
(* when the state is ALARM or OK and both mutation calls succeeded; when   *)
(* the state is ALARM or OK, both lookups succeeded and a mutation call    *)
(* fails, it returns 500 'Failed to update DNS weights'.                   *)
(***************************************************************************)
C8_SuccessIffBothMutations ==
    \A i \in Invs :
        LET l == inv[i]
            toggles == l.event[1] \in EventsFor("ALARM") \cup EventsFor("OK")
        IN  l.pc = "done"
            => /\ ReportsSuccess(l.result)
                  <=> (toggles /\ Applied(l) = {1, 2})
               /\ (/\ ValidConfig
                   /\ toggles
                   /\ BothFound(l)
                   /\ \E k \in 1..Len(Mutations(l)) : ~Mutations(l)[k].ok)
                  => l.result = [kind |-> "return", statusCode |-> 500,
                                 body |-> [error |-> <<"Failed to update DNS weights">>]]

\* the primary mutation succeeded, the secondary failed: 500
C8_Witness ==
    \E i \in Invs :
        /\ inv[i].pc = "done"
        /\ inv[i].event[1] \in EventsFor("OK")
        /\ Len(Mutations(inv[i])) = 2
        /\ Applied(inv[i]) = {1}
        /\ inv[i].result.statusCode = 500

(***************************************************************************)
(* C9: a successful mutation leaves every field of the record other than   *)
(* Weight as the provider held it: name, type, set identifier, alias       *)
(* target (DNS name, target zone, EvaluateTargetHealth) or values and TTL. *)
(***************************************************************************)
C9_MutationPreservesFields ==
    \A i \in Invs :
        LET l == inv[i] IN
        \A k \in Applied(l) :
            LET rs == Submitted(l, k)
                before == RecordOf(l.pre, rs.SetIdentifier)
            IN  /\ before # None
                /\ [rs EXCEPT !.Weight = before[1].Weight] = before[1]
                /\ RecordOf(zone, rs.SetIdentifier) # None
                /\ [RecordOf(zone, rs.SetIdentifier)[1] EXCEPT
                       !.Weight = before[1].Weight] = before[1]

\* exactly one variant of the descriptor is populated
OneVariant(d) ==
    \/ /\ d.is_alias
       /\ d.alias_dns_name # None /\ d.alias_hosted_zone_id # None
       /\ d.resource_records = None /\ d.ttl = None
    \/ /\ ~d.is_alias
       /\ d.resource_records # None /\ d.ttl # None
       /\ d.alias_dns_name = None /\ d.alias_hosted_zone_id = None

\* the record set has the alias fields or the standard fields, not both, not neither
AliasXorStandard(rs) ==
    LET a == "AliasTarget" \in DOMAIN rs
        t == "TTL" \in DOMAIN rs
        r == "ResourceRecords" \in DOMAIN rs
    IN  (a /\ ~t /\ ~r) \/ (~a /\ t /\ r)

(***************************************************************************)
(* C10: every descriptor get_record_info returns has exactly one variant   *)
(* populated, and every record set submitted carries AliasTarget or (TTL   *)
(* and ResourceRecords), never both and never neither.                     *)
(***************************************************************************)
C10_ExactlyOneVariant ==
    \A i \in Invs :
        LET l == inv[i] IN
        /\ l.pri_record_info # None => OneVariant(l.pri_record_info[1])
        /\ l.sec_record_info # None => OneVariant(l.sec_record_info[1])
        /\ \A k \in 1..Len(Mutations(l)) : AliasXorStandard(Submitted(l, k))

\* an alias primary and a standard secondary have both been looked up and submitted
C10_Witness ==
    \E i \in Invs :
        /\ BothFound(inv[i])
        /\ inv[i].pri_record_info[1].is_alias
        /\ ~inv[i].sec_record_info[1].is_alias
        /\ Len(Mutations(inv[i])) = 2
        /\ "AliasTarget" \in DOMAIN Submitted(inv[i], 1)
        /\ "ResourceRecords" \in DOMAIN Submitted(inv[i], 2)

\* the descriptor of a record set, read off its fields
DescriptorOf(record_set) ==
    IF "AliasTarget" \in DOMAIN record_set
    THEN [is_alias |-> TRUE,
          alias_dns_name |-> Some(record_set.AliasTarget.DNSName),
          alias_hosted_zone_id |-> Some(record_set.AliasTarget.HostedZoneId),
          resource_records |-> None, ttl |-> None]
    ELSE [is_alias |-> FALSE, alias_dns_name |-> None,
          alias_hosted_zone_id |-> None,
          resource_records |->
              Some([j \in 1..Len(record_set.ResourceRecords) |->
                      record_set.ResourceRecords[j].Value]),
          ttl |-> Some(record_set.TTL)]

\* what a lookup of this identifier in zone z is to return
Expected(z, identifier, ok) ==
    IF ok /\ RecordOf(z, identifier) # None
    THEN Some(DescriptorOf(RecordOf(z, identifier)[1]))
    ELSE None

\* the page of the listing from the configured name and type that holds the
\* record of this identifier (0 when it is not listed)
PageOf(z, identifier) ==
    LET pages == ListResourceRecordSets(z, TargetName, "A")
        hits == {p \in 1..Len(pages) :
                    \E j \in 1..Len(pages[p].ResourceRecordSets) :
                        Some(pages[p].ResourceRecordSets[j]) = RecordOf(z, identifier)}
    IN  IF hits = {} THEN 0 ELSE CHOOSE p \in hits : TRUE

(***************************************************************************)
(* C11: get_record_info returns the descriptor of the record whose name,   *)
(* type and set identifier equal the requested ones whenever the provider  *)
(* lists such a record, on whatever page, and None when no such record is  *)
(* listed or the provider raises; it never returns the descriptor of       *)
(* another record.                                                         *)
(***************************************************************************)
C11_LookupFindsTheRecord ==
    \A i \in Invs :
        LET l == inv[i] IN
        /\ Len(Lookups(l)) >= 1
           => l.pri_record_info = Expected(l.pre, PrimaryId, Lookups(l)[1].ok)
        /\ Len(Lookups(l)) >= 2
           => l.sec_record_info = Expected(l.pre, SecondaryId, Lookups(l)[2].ok)

\* the primary record was found on the second page, after a page of other records
C11_Witness ==
    \E i \in Invs :
        /\ Len(Lookups(inv[i])) >= 1
        /\ Lookups(inv[i])[1].ok
        /\ PageOf(inv[i].pre, PrimaryId) = 2
        /\ inv[i].pri_record_info # None
        /\ inv[i].pri_record_info[1].is_alias

\* the state an event notifies of: the NewStateValue of the document in its
\* first record when that is a recognized state, None otherwise
NotifiedState(event) ==
    IF \E st \in RecognizedStates : event \in EventsFor(st)
    THEN Some(CHOOSE st \in RecognizedStates : event \in EventsFor(st))
    ELSE None

(***************************************************************************)
(* C12: validate_sns_message returns the NewStateValue of the document in  *)
(* the first record's Sns.Message exactly when it is ALARM, OK or          *)
(* INSUFFICIENT_DATA, and returns None for every other event; records      *)
(* after the first are ignored. With valid configuration the handler goes  *)
(* on with the returned state, and answers 400 when None is returned.      *)
(***************************************************************************)
C12_ParserReturnsStateOrNone ==
    \A i \in Invs :
        LET l == inv[i] IN
        (l.pc \notin {"idle", "off"} /\ ValidConfig)
        => /\ validate_sns_message(l.event[1])
                = [kind |-> "return", value |-> NotifiedState(l.event[1])]
           /\ l.new_state = NotifiedState(l.event[1])
           /\ NotifiedState(l.event[1]) = None
              => l.pc = "done" /\ l.result.kind = "return"
                 /\ l.result.statusCode = 400

\* the record name as configured
ConfiguredName == env["RECORD_SET_NAME"][1]

\* the record name a provider call carries
NameIn(call) ==
    IF call.op = "list_resource_record_sets" THEN call.StartRecordName
    ELSE call.ChangeBatch.Changes[1].ResourceRecordSet.Name

(***************************************************************************)
(* C13: when all five settings are present, validate_environment_variables *)
(* returns them unchanged except RECORD_SET_NAME, which is the configured  *)
(* name when that ends with "." and the configured name plus one "."       *)
(* otherwise; normalizing the returned name again changes nothing; the     *)
(* handler works with the returned settings, and the record name of every  *)
(* lookup and mutation ends with ".".                                      *)
(***************************************************************************)
C13_NameNormalized ==
    ValidConfig =>
        LET r == validate_environment_variables(env) IN
        /\ r.kind = "return"
        /\ \A var \in RequiredSet \ {"RECORD_SET_NAME"} :
              r.env_vars[var] = env[var][1]
        /\ r.env_vars["RECORD_SET_NAME"]
              = IF ConfiguredName[Len(ConfiguredName)] = "."
                THEN ConfiguredName
                ELSE ConfiguredName \o <<".">>
        /\ NormalizeName(r.env_vars["RECORD_SET_NAME"])
              = r.env_vars["RECORD_SET_NAME"]
        /\ \A i \in Invs :
              /\ inv[i].env_vars # None => inv[i].env_vars[1] = r.env_vars
              /\ \A k \in 1..Len(inv[i].calls) :
                    LET name == NameIn(inv[i].calls[k])
                    IN  name # <<>> /\ name[Len(name)] = "."

\* a mutation went out under a name that was configured without the dot
C13_Witness ==
    /\ ValidConfig
    /\ ConfiguredName = <<"b">>
    /\ \E i \in Invs :
          /\ Len(Mutations(inv[i])) = 2
          /\ Submitted(inv[i], 2).Name = <<"b", ".">>

\* the k-th provider call of an invocation is a lookup for this identifier
IsLookupFor(l, k, identifier) ==
    /\ l.calls[k].op = "list_resource_record_sets"
    /\ l.calls[k].identifier = identifier

\* the k-th provider call of an invocation is a mutation of this identifier
IsMutationOf(l, k, identifier) ==
    /\ l.calls[k].op = "change_resource_record_sets"
    /\ l.calls[k].ChangeBatch.Changes[1].ResourceRecordSet.SetIdentifier
          = identifier

(***************************************************************************)
(* C14: the provider calls of one invocation are, in this order, the       *)
(* primary lookup, the secondary lookup, the primary mutation and the      *)
(* secondary mutation, and nothing else. A mutation is issued only for an  *)
(* ALARM or OK notification and only after both lookups have returned a    *)
(* descriptor; the secondary mutation is issued only after the primary     *)
(* mutation succeeded.                                                     *)
(***************************************************************************)
C14_CallOrder ==
    \A i \in Invs :
        LET l == inv[i]
            n == Len(l.calls)
        IN  /\ n <= 4
            /\ n >= 1 => IsLookupFor(l, 1, PrimaryId)
            /\ n >= 2 => IsLookupFor(l, 2, SecondaryId)
            /\ n >= 3 => /\ IsMutationOf(l, 3, PrimaryId)
                         /\ l.event[1] \in EventsFor("ALARM") \cup EventsFor("OK")
                         /\ l.calls[1].ok /\ l.calls[2].ok
                         /\ BothFound(l)
            /\ n >= 4 => /\ IsMutationOf(l, 4, SecondaryId)
                         /\ l.calls[3].ok

\* an invocation has made all four calls
C14_Witness == \E i \in Invs : Len(inv[i].calls) = 4

\* how many lookups an invocation has made for an identifier
LookupsFor(l, identifier) ==
    Cardinality({k \in 1..Len(Lookups(l)) :
                    Lookups(l)[k].identifier = identifier})

\* how many mutation calls an invocation has made for an identifier
MutationsOf(l, identifier) ==
    Cardinality({k \in 1..Len(Mutations(l)) :
                    Submitted(l, k).SetIdentifier = identifier})

(***************************************************************************)
(* C15: one invocation issues at most two lookups and at most two mutation *)
(* calls, and (the two identifiers being different) at most one lookup and *)
(* at most one mutation call per record; every mutation call submits one   *)
(* change, an UPSERT of one record set, with weight 0 or 1; when both      *)
(* records are submitted, their weights differ.                            *)
(***************************************************************************)
C15_AtMostOneToggle ==
    \A i \in Invs :
        LET l == inv[i] IN
        /\ Len(Lookups(l)) <= 2
        /\ Len(Mutations(l)) <= 2
        /\ (l.calls # <<>> /\ PrimaryId # SecondaryId)
           => \A id \in {PrimaryId, SecondaryId} :
                 LookupsFor(l, id) <= 1 /\ MutationsOf(l, id) <= 1
        /\ \A k \in 1..Len(Mutations(l)) :
              /\ Len(Mutations(l)[k].ChangeBatch.Changes) = 1
              /\ Mutations(l)[k].ChangeBatch.Changes[1].Action = "UPSERT"
              /\ Submitted(l, k).Weight \in {0, 1}
        /\ Len(Mutations(l)) = 2
           => Submitted(l, 1).Weight # Submitted(l, 2).Weight

\* both records of a pair with different identifiers have been submitted
C15_Witness ==
    \E i \in Invs :
        /\ Len(Mutations(inv[i])) = 2
        /\ PrimaryId # SecondaryId
        /\ MutationsOf(inv[i], PrimaryId) = 1
        /\ MutationsOf(inv[i], SecondaryId) = 1

\* where a record set points: its alias target, or its values
PointsTo(record_set) ==
    IF "AliasTarget" \in DOMAIN record_set
    THEN [kind |-> "alias", dns |-> record_set.AliasTarget.DNSName,
          zone_id |-> record_set.AliasTarget.HostedZoneId]
    ELSE [kind |-> "values",
          values |-> [j \in 1..Len(record_set.ResourceRecords) |->
                         record_set.ResourceRecords[j].Value]]

\* where a descriptor says its record points
DescriptorPointsTo(record_info) ==
    IF record_info.is_alias
    THEN [kind |-> "alias", dns |-> record_info.alias_dns_name[1],
          zone_id |-> record_info.alias_hosted_zone_id[1]]
    ELSE [kind |-> "values", values |-> record_info.resource_records[1]]

\* the k-th mutation of an invocation is built from this descriptor, which is
\* the one of the record with this identifier when the invocation started
BuiltFrom(l, k, identifier, record_info) ==
    /\ Submitted(l, k).SetIdentifier = identifier
    /\ record_info = Expected(l.pre, identifier, TRUE)
    /\ PointsTo(Submitted(l, k)) = DescriptorPointsTo(record_info[1])
    /\ ("AliasTarget" \in DOMAIN Submitted(l, k))
          # ("ResourceRecords" \in DOMAIN Submitted(l, k))

(***************************************************************************)
(* C16: the primary mutation is built from the descriptor this invocation  *)
(* looked up for the primary identifier, the secondary mutation from the   *)
(* one it looked up for the secondary identifier, so each record keeps     *)
(* pointing where it pointed when the invocation started; an invocation    *)
(* starts without descriptors, nothing is carried over from an earlier one.*)
(***************************************************************************)
C16_MutationUsesOwnDescriptor ==
    \A i \in Invs :
        LET l == inv[i] IN
        /\ l.pc = "idle"
           => l.pri_record_info = None /\ l.sec_record_info = None
        /\ Len(Mutations(l)) >= 1
           => BuiltFrom(l, 1, PrimaryId, l.pri_record_info)
        /\ Len(Mutations(l)) >= 2
           => BuiltFrom(l, 2, SecondaryId, l.sec_record_info)
        /\ l.calls # <<>>
           => \A id \in {PrimaryId, SecondaryId} :
                 RecordOf(l.pre, id) # None
                 => /\ RecordOf(zone, id) # None
                    /\ PointsTo(RecordOf(zone, id)[1])
                          = PointsTo(RecordOf(l.pre, id)[1])

\* both mutations were applied to records that point to different places
C16_Witness ==
    \E i \in Invs :
        /\ Applied(inv[i]) = {1, 2}
        /\ PrimaryId # SecondaryId
        /\ PointsTo(Submitted(inv[i], 1)) # PointsTo(Submitted(inv[i], 2))
        /\ PointsTo(Submitted(inv[i], 1)).kind = "alias"
        /\ PointsTo(Submitted(inv[i], 2)).kind = "values"

\* every provider call of the invocation succeeded
AllCallsOk(l) == \A k \in 1..Len(l.calls) : l.calls[k].ok

\* both weighted records exist and their identifiers differ
TwoRecords(z) ==
    /\ ValidConfig
    /\ PrimaryId # SecondaryId
    /\ RecordOf(z, PrimaryId) # None
    /\ RecordOf(z, SecondaryId) # None

\* the weights of the primary and of the secondary record
Weights(z) == <<WeightOf(z, PrimaryId), WeightOf(z, SecondaryId)>>

\* the weights a notification of this state asks for
WeightsFor(state) ==
    IF state = "ALARM" THEN <<Some(0), Some(1)>> ELSE <<Some(1), Some(0)>>

(***************************************************************************)
(* C17: invocations run one after another. Whenever none is in flight and  *)
(* no provider call has failed since, the weights of the two records are   *)
(* those of the latest ALARM or OK notification processed (ALARM: primary  *)
(* 0, secondary 1; OK: primary 1, secondary 0). An invocation for          *)
(* INSUFFICIENT_DATA or for a rejected event whose calls all succeeded     *)
(* leaves the zone as it found it, and an invocation for the state that    *)
(* was processed just before leaves the weights as it found them.          *)
(***************************************************************************)
C17_LatestNotificationDecides ==
    \A i \in Invs :
        LET l == inv[i]
            latest == IF l.pc = "done" THEN LastAfter(l) ELSE last
        IN  /\ (l.pc \in {"idle", "done"} /\ TwoRecords(zone) /\ latest # None)
               => Weights(zone) = WeightsFor(latest[1])
            /\ ( /\ l.pc = "done"
                 /\ AllCallsOk(l)
                 /\ l.event[1] \notin EventsFor("ALARM") \cup EventsFor("OK") )
               => zone = l.pre
            /\ ( /\ l.pc = "done"
                 /\ AllCallsOk(l)
                 /\ TwoRecords(zone)
                 /\ last # None
                 /\ l.event[1] \in EventsFor(last[1]) )
               => Weights(zone) = Weights(l.pre)

\* the same state has been processed twice in a row, both times to the end
C17_Witness ==
    \E i \in Invs :
        /\ inv[i].pc = "done"
        /\ Applied(inv[i]) = {1, 2}
        /\ TwoRecords(zone)
        /\ last = Some("ALARM")
        /\ inv[i].event[1] \in EventsFor("ALARM")

\* the invocation has returned from processing a notification of this state
\* with every provider call succeeding
Returned(l, state) ==
    /\ l.pc = "done"
    /\ l.event[1] \in EventsFor(state)
    /\ AllCallsOk(l)

(***************************************************************************)
(* C18: two invocations, one for ALARM and one for OK, run at the same     *)
(* time, their provider calls interleaved in any order and all succeeding. *)
(* Once both have returned, one of the two records has weight 1 and the    *)
(* other has weight 0.                                                     *)
(***************************************************************************)
C18_ConcurrentLeavesOneActive ==
    \A a, o \in Invs :
        (Returned(inv[a], "ALARM") /\ Returned(inv[o], "OK") /\ TwoRecords(zone))
        => Weights(zone) \in {WeightsFor("ALARM"), WeightsFor("OK")}

====
